---- MODULE Spec2Model ----
(***************************************************************************)
(* Model of src/src/App.jsx: the webcam scan loop (captureFrame driven by  *)
(* a 2500 ms interval, gated by isRequestInFlight and a 3000 ms cooldown   *)
(* timeout) and the card library (recordMatch updater, updateQuantity,     *)
(* removeCard).                                                            *)
(*                                                                         *)
(* Every callback (interval tick, promise continuation, timeout, click)    *)
(* runs to its next await on the single JavaScript thread, so each is one  *)
(* atomic action.  React commits a state update and re-runs the interval   *)
(* effect (lines 90, 92-102) before the next 2500 ms tick, so a tick reads *)
(* the committed value of isRequestInFlight.  Durations are abstracted to  *)
(* their order: an armed timeout may fire at any later step, timeouts of   *)
(* equal delay in the order they were armed, and the timeouts one callback *)
(* arms in the order of their delays (500 < 2000 < 3000 ms).  What a       *)
(* callback reads from its environment (the video element, Date.now(), the *)
(* response) is an input of its action.                                    *)
(***************************************************************************)
EXTENDS Integers, Sequences, FiniteSets, TLC

VARIABLES
    isScanning,         \* useState(false), line 6
    error,              \* useState(null), line 7
    flashFrame,         \* useState(false), line 8
    cardLibrary,        \* useState([]), line 9
    notification,       \* useState({message:'', visible:false}), line 10
    isRequestInFlight,  \* useState(false), line 11: the gate
    requests,           \* fetches submitted at line 40 and not yet settled
    cycles,             \* number of ticks that entered the try block
    cooldownTimers,     \* pending timeouts of line 88, in arming order
    notificationTimers, \* pending timeouts of line 20
    flashTimers,        \* pending timeouts of line 61
    calls,              \* history: direct recordMatch calls per name
    last                \* history: the callback that ran last, its inputs
                        \* and what it handed to the browser

vars == <<isScanning, error, flashFrame, cardLibrary, notification,
          isRequestInFlight, requests, cycles,
          cooldownTimers, notificationTimers, flashTimers, calls,
          last>>

scanVars == <<isScanning, error, flashFrame, notification, isRequestInFlight,
              requests, cycles, cooldownTimers,
              notificationTimers, flashTimers>>

----------------------------------------------------------------------------
(* Bounds *)

MaxCycles == 3      \* cycles that enter the try block
MaxQty    == 2      \* a click on "+" is modelled up to this quantity
MaxCalls  == 4      \* direct library calls in the library specification

(* Input sets *)

Names    == {"Bolt", "Shock"}
NoName   == ""                      \* response without a (truthy) name
Statuses == {404, 500}              \* non-2xx statuses
Bodies   == {"overloaded"}          \* response.text() of a non-2xx response
Deltas   == {-2, -1, 0, 1, 2}       \* deltas of direct updateQuantity calls
Times    == {1000, 1001}            \* values Date.now() returns (line 79)
UIDeltas == {-1, 1}                 \* lines 221, 229

(* err.message of what fetch / response.json() / line 55 / the capture code
   can throw; the empty message exercises the fallback of line 85 *)
FetchMessages   == {<<"Failed to fetch">>, <<>>}
JsonMessages    == {<<"Unexpected token">>}
CaptureMessages == {<<"ctx is null">>}

NoError == <<>>                     \* null
Hidden  == [message |-> <<>>, visible |-> FALSE]

----------------------------------------------------------------------------
(* Pure helpers *)

NewIdTimeOnly(name, t) == <<"", t>>

\* line 79: the name, a dash and the decimal digits of the time; the last
\* dash separates the two, so the pair stands for the string
NewId(name, t) == <<name, t>>

recordMatchAlwaysAppends(prevLibrary, name, t) ==
    Append(prevLibrary, [name |-> name, quantity |-> 1, id |-> NewId(name, t)])

recordMatchIncrementsAll(prevLibrary, name, t) ==
    IF \E i \in DOMAIN prevLibrary : prevLibrary[i].name = name
    THEN [i \in DOMAIN prevLibrary |->
            [prevLibrary[i] EXCEPT !.quantity = @ + 1]]
    ELSE Append(prevLibrary, [name |-> name, quantity |-> 1, id |-> NewId(name, t)])

recordMatch(prevLibrary, name, t) ==
    IF \E i \in DOMAIN prevLibrary : prevLibrary[i].name = name
    THEN [i \in DOMAIN prevLibrary |->
            IF prevLibrary[i].name = name
            THEN [prevLibrary[i] EXCEPT !.quantity = @ + 1]
            ELSE prevLibrary[i]]
    ELSE Append(prevLibrary, [name |-> name, quantity |-> 1, id |-> NewId(name, t)])

Max(a, b) == IF a >= b THEN a ELSE b

updateQuantityKeepsZero(prevLibrary, id, delta) ==
    [i \in DOMAIN prevLibrary |->
        IF prevLibrary[i].id = id
        THEN [prevLibrary[i] EXCEPT !.quantity = Max(0, @ + delta)]
        ELSE prevLibrary[i]]

updateQuantityUpserts(prevLibrary, id, delta) ==
    LET known  == \E i \in DOMAIN prevLibrary : prevLibrary[i].id = id
        lib    == IF known THEN prevLibrary
                  ELSE Append(prevLibrary,
                              [name |-> id[1], quantity |-> 0, id |-> id])
        mapped == [i \in DOMAIN lib |->
                     IF lib[i].id = id
                     THEN [lib[i] EXCEPT !.quantity = Max(0, @ + delta)]
                     ELSE lib[i]]
        Positive(card) == card.quantity > 0
    IN SelectSeq(mapped, Positive)

updateQuantityFloorsAtOne(prevLibrary, id, delta) ==
    [i \in DOMAIN prevLibrary |->
        IF prevLibrary[i].id = id
        THEN [prevLibrary[i] EXCEPT !.quantity = Max(1, @ + delta)]
        ELSE prevLibrary[i]]

updateQuantity(prevLibrary, id, delta) ==
    LET mapped == [i \in DOMAIN prevLibrary |->
                     IF prevLibrary[i].id = id
                     THEN [prevLibrary[i] EXCEPT !.quantity = Max(0, @ + delta)]
                     ELSE prevLibrary[i]]
        Positive(card) == card.quantity > 0
    IN SelectSeq(mapped, Positive)

removeCard(prevLibrary, id) ==
    LET Other(card) == card.id # id
    IN SelectSeq(prevLibrary, Other)

ServerErrorMessageWithoutBody(status, errorText) ==
    <<"Server error: ", ToString(status)>>

ServerErrorMessage(status, errorText) ==
    <<"Server error: ", ToString(status), " - ", errorText>>

CaughtMessageWithoutFallback(message) == message

\* line 85: err.message || fallback
CaughtMessage(message) ==
    IF message # <<>> THEN message
    ELSE <<"An error occurred while processing the image">>

HasNameAlways(name) == TRUE

HasName(name) == name # NoName

\* Strings are sequences of pieces; a number is its decimal text.
\* the id built at line 79, as text
IdText(id) == <<id[1], "-", ToString(id[2])>>

\* Array.prototype.join (lines 123, 128, 129)
RECURSIVE Join(_, _)
Join(parts, separator) ==
    IF parts = <<>> THEN <<>>
    ELSE IF Len(parts) = 1 THEN parts[1]
    ELSE parts[1] \o <<separator>> \o Join(Tail(parts), separator)

CsvRowQuotesQuantity(card) ==
    Join(<< <<"\"", card.name, "\"">>,
            <<"\"">> \o IdText(card.id) \o <<"\"">>,
            <<"\"", ToString(card.quantity), "\"">> >>, ",")

\* lines 124-128
CsvRow(card) ==
    Join(<< <<"\"", card.name, "\"">>,
            <<"\"">> \o IdText(card.id) \o <<"\"">>,
            <<ToString(card.quantity)>> >>, ",")

\* lines 121-129
CsvContent(library) ==
    LET headers == << <<"Card Name">>, <<"Card ID">>, <<"Quantity">> >>
    IN Join(<<Join(headers, ",")>> \o [i \in DOMAIN library |-> CsvRow(library[i])],
            "\n")

NotificationFor(name) ==
    [message |-> <<name, " added to library">>, visible |-> TRUE]

----------------------------------------------------------------------------
NoId == <<"", 0>>

\* history: the id recordMatch gives the entry it adds, NoId when it adds none
AddedId(lib, name, t) ==
    IF \E i \in DOMAIN lib : lib[i].name = name THEN NoId ELSE NewId(name, t)

Event(op) ==
    [op |-> op, name |-> "", id |-> NoId, delta |-> 0, status |-> 0,
     body |-> "", afterRemove |-> FALSE, removed |-> FALSE,
     afterAdd |-> FALSE, csv |-> <<>>, request |-> 0, video |-> TRUE]

Init ==
    /\ isScanning = FALSE
    /\ error = NoError
    /\ flashFrame = FALSE
    /\ cardLibrary = <<>>
    /\ notification = Hidden
    /\ isRequestInFlight = FALSE
    /\ requests = {}
    /\ cycles = 0
    /\ cooldownTimers = <<>>
    /\ notificationTimers = 0
    /\ flashTimers = 0
    /\ calls = [n \in Names |-> 0]
    /\ last = Event("init")

----------------------------------------------------------------------------
(* The scan loop *)

timerVars == <<cooldownTimers, notificationTimers, flashTimers>>

\* line 172: the Start/Stop button; the effect of lines 92-102 arms or
\* clears the interval accordingly
ToggleScanning ==
    /\ isScanning' = ~isScanning
    /\ last' = Event("toggle")
    /\ UNCHANGED <<error, flashFrame, cardLibrary, notification,
                   isRequestInFlight, requests, cycles, timerVars, calls>>

TickReturnsArmsCooldown(video) ==
    /\ isScanning
    /\ ~video \/ isRequestInFlight
    /\ cooldownTimers' = Append(cooldownTimers, "capture")
    /\ last' = [Event("tickReturns") EXCEPT !.video = video]
    /\ UNCHANGED <<isScanning, error, flashFrame, cardLibrary, notification,
                   isRequestInFlight, requests, cycles, notificationTimers,
                   flashTimers, calls>>

\* lines 24-27: an interval tick that returns before the try block; video is
\* whether webcamRef.current and its video element exist
TickReturns(video) ==
    /\ isScanning
    /\ ~video \/ isRequestInFlight
    /\ last' = [Event("tickReturns") EXCEPT !.video = video]
    /\ UNCHANGED <<scanVars, cardLibrary, calls>>

\* lines 29-36, 83-89: the capture code throws; catch stores the message and
\* finally arms the cooldown timeout (the gate was never set)
TickCaptureThrows(video, message) ==
    /\ isScanning
    /\ video /\ ~isRequestInFlight
    /\ cycles < MaxCycles
    /\ cycles' = cycles + 1
    /\ error' = CaughtMessage(message)
    /\ cooldownTimers' = Append(cooldownTimers, "capture")
    /\ last' = Event("captureThrows")
    /\ UNCHANGED <<isScanning, flashFrame, cardLibrary, notification,
                   isRequestInFlight, requests, notificationTimers,
                   flashTimers, calls>>

TickSubmitsWhenIdle(video) ==
    /\ video /\ ~isRequestInFlight
    /\ cycles < MaxCycles
    /\ cycles' = cycles + 1
    /\ isRequestInFlight' = TRUE
    /\ requests' = requests \cup
                     {[n |-> cycles + 1, phase |-> "fetch", status |-> 0]}
    /\ last' = [Event("submit") EXCEPT !.request = cycles + 1]
    /\ UNCHANGED <<isScanning, error, flashFrame, cardLibrary, notification,
                   timerVars, calls>>

\* lines 29-46: capture, set the gate, start the fetch and suspend
TickSubmits(video) ==
    /\ isScanning
    /\ video /\ ~isRequestInFlight
    /\ cycles < MaxCycles
    /\ cycles' = cycles + 1
    /\ isRequestInFlight' = TRUE
    /\ requests' = requests \cup
                     {[n |-> cycles + 1, phase |-> "fetch", status |-> 0]}
    /\ last' = [Event("submit") EXCEPT !.request = cycles + 1]
    /\ UNCHANGED <<isScanning, error, flashFrame, cardLibrary, notification,
                   timerVars, calls>>

FailsWithoutCooldown(r, message, event) ==
    /\ error' = CaughtMessage(message)
    /\ requests' = requests \ {r}
    /\ last' = [event EXCEPT !.status = r.status, !.request = r.n]
    /\ UNCHANGED <<isScanning, flashFrame, cardLibrary, notification,
                   isRequestInFlight, cycles, timerVars, calls>>

\* lines 83-89 for the cycle suspended in request r: catch and finally
Fails(r, message, event) ==
    /\ error' = CaughtMessage(message)
    /\ cooldownTimers' = Append(cooldownTimers, "request")
    /\ requests' = requests \ {r}
    /\ last' = [event EXCEPT !.status = r.status, !.request = r.n]
    /\ UNCHANGED <<isScanning, flashFrame, cardLibrary, notification,
                   isRequestInFlight, cycles, notificationTimers, flashTimers,
                   calls>>

\* line 40: fetch rejects (network failure)
FetchRejects(r, message) ==
    /\ r \in requests /\ r.phase = "fetch"
    /\ Fails(r, message, Event("fetchRejects"))

\* lines 40-53: fetch resolves; the cycle suspends again in response.text()
\* (status not ok, line 49) or response.json() (line 53). Status 200 is ok.
FetchResolves(r, status) ==
    /\ r \in requests /\ r.phase = "fetch"
    /\ requests' = (requests \ {r}) \cup
          {[r EXCEPT !.phase = IF status = 200 THEN "json" ELSE "text",
                     !.status = status]}
    /\ last' = [Event("fetchResolves") EXCEPT !.status = status]
    /\ UNCHANGED <<isScanning, error, flashFrame, cardLibrary, notification,
                   isRequestInFlight, cycles, timerVars, calls>>

\* lines 49-50, 83-89: the body text of a non-2xx response arrives
TextResolves(r, errorText) ==
    /\ r \in requests /\ r.phase = "text"
    /\ Fails(r, ServerErrorMessage(r.status, errorText),
             [Event("serverError") EXCEPT !.body = errorText])

\* lines 53-55, 83-89: response.json() rejects (malformed body), or the body
\* is JSON null and reading data.name throws
JsonFails(r, message) ==
    /\ r \in requests /\ r.phase = "json"
    /\ Fails(r, message, Event("jsonFails"))

MatchedOverwritesLibrary(name, t) ==
    /\ flashFrame' = TRUE
    /\ flashTimers' = flashTimers + 1
    /\ notification' = NotificationFor(name)
    /\ notificationTimers' = notificationTimers + 1
    /\ cardLibrary' = recordMatch(<<>>, name, t)

\* lines 56-81: the effects of a response that carries a name
Matched(name, t) ==
    /\ flashFrame' = TRUE
    /\ flashTimers' = flashTimers + 1
    /\ notification' = NotificationFor(name)
    /\ notificationTimers' = notificationTimers + 1
    /\ cardLibrary' = recordMatch(cardLibrary, name, t)

JsonResolvesWhileScanning(r, name, t) ==
    /\ r \in requests /\ r.phase = "json"
    /\ IF HasName(name) /\ isScanning
       THEN Matched(name, t)
       ELSE UNCHANGED <<flashFrame, flashTimers, notification,
                        notificationTimers, cardLibrary>>
    /\ cooldownTimers' = Append(cooldownTimers,
                                IF HasName(name) THEN "match" ELSE "request")
    /\ requests' = requests \ {r}
    /\ last' = [Event("jsonResolves") EXCEPT !.status = r.status, !.name = name,
                  !.request = r.n,
                  !.afterRemove = (last.op = "removeCard" /\ last.removed
                                     /\ last.id[1] = name),
                  !.delta = IF last.op = "updateQuantity" /\ last.id[1] = name
                            THEN last.delta ELSE 0,
                  !.id = IF HasName(name) THEN AddedId(cardLibrary, name, t)
                         ELSE NoId]
    /\ UNCHANGED <<isScanning, error, isRequestInFlight, cycles, calls>>

\* lines 53-82, 86-89: response.json() resolves with data.name = name (NoName
\* when it is absent); t is Date.now()
JsonResolves(r, name, t) ==
    /\ r \in requests /\ r.phase = "json"
    /\ IF HasName(name)
       THEN Matched(name, t)
       ELSE UNCHANGED <<flashFrame, flashTimers, notification,
                        notificationTimers, cardLibrary>>
    /\ cooldownTimers' = Append(cooldownTimers,
                                IF HasName(name) THEN "match" ELSE "request")
    /\ requests' = requests \ {r}
    /\ last' = [Event("jsonResolves") EXCEPT !.status = r.status, !.name = name,
                  !.request = r.n,
                  !.afterRemove = (last.op = "removeCard" /\ last.removed
                                     /\ last.id[1] = name),
                  !.delta = IF last.op = "updateQuantity" /\ last.id[1] = name
                            THEN last.delta ELSE 0,
                  !.id = IF HasName(name) THEN AddedId(cardLibrary, name, t)
                         ELSE NoId]
    /\ UNCHANGED <<isScanning, error, isRequestInFlight, cycles, calls>>

\* pending cooldown timeouts armed by a cycle that matched a name
Matches(timers) ==
    Cardinality({i \in DOMAIN timers : timers[i] = "match"})

\* line 88: the oldest cooldown timeout fires; the notification timeout its
\* cycle armed (2000 ms, line 20) has fired before it
CooldownExpires ==
    /\ cooldownTimers # <<>>
    /\ Head(cooldownTimers) = "match" =>
          notificationTimers < Matches(cooldownTimers)
    /\ cooldownTimers' = Tail(cooldownTimers)
    /\ isRequestInFlight' = FALSE
    /\ last' = Event("cooldownExpires")
    /\ UNCHANGED <<isScanning, error, flashFrame, cardLibrary, notification,
                   requests, cycles, notificationTimers, flashTimers, calls>>

\* line 20: the oldest notification timeout fires; the flash timeout its
\* cycle armed (500 ms, line 61) has fired before it
NotificationExpires ==
    /\ notificationTimers > 0
    /\ flashTimers < notificationTimers
    /\ notificationTimers' = notificationTimers - 1
    /\ notification' = Hidden
    /\ last' = Event("notificationExpires")
    /\ UNCHANGED <<isScanning, error, flashFrame, cardLibrary,
                   isRequestInFlight, requests, cycles, cooldownTimers,
                   flashTimers, calls>>

\* line 61: the oldest flash timeout fires
FlashExpires ==
    /\ flashTimers > 0
    /\ flashTimers' = flashTimers - 1
    /\ flashFrame' = FALSE
    /\ last' = Event("flashExpires")
    /\ UNCHANGED <<isScanning, error, cardLibrary, notification,
                   isRequestInFlight, requests, cycles, cooldownTimers,
                   notificationTimers, calls>>

----------------------------------------------------------------------------
(* The library operations *)

Ids == {NewId(n, t) : n \in Names, t \in Times}

IdsIn(lib) == {lib[i].id : i \in DOMAIN lib}

\* lines 104-114
UpdateQuantity(id, delta) ==
    /\ \A i \in DOMAIN cardLibrary :
          cardLibrary[i].id = id => cardLibrary[i].quantity + delta <= MaxQty
    /\ cardLibrary' = updateQuantity(cardLibrary, id, delta)
    /\ last' = [Event("updateQuantity") EXCEPT !.id = id, !.delta = delta,
                  !.afterRemove = (last.op = "removeCard" /\ last.id = id),
                  !.removed = (last.op = "removeCard" /\ last.id = id
                                 /\ last.removed),
                  !.afterAdd = (last.op \in {"recordMatch", "jsonResolves"}
                                  /\ last.id = id)]
    /\ UNCHANGED <<scanVars, calls>>

\* lines 116-118
RemoveCard(id) ==
    /\ cardLibrary' = removeCard(cardLibrary, id)
    /\ last' = [Event("removeCard") EXCEPT !.id = id,
                  !.removed = (id \in IdsIn(cardLibrary))]
    /\ UNCHANGED <<scanVars, calls>>

\* lines 221, 229: the "-" and "+" buttons of a library row
ClickQuantity(id, delta) ==
    /\ id \in IdsIn(cardLibrary)
    /\ UpdateQuantity(id, delta)

\* line 239: the remove button of a library row
ClickRemove(id) ==
    /\ id \in IdsIn(cardLibrary)
    /\ RemoveCard(id)

\* lines 120-140, 195, 254: the Export button, shown while the library is
\* not empty; the content goes to the browser as a download
ExportToCSV ==
    /\ Len(cardLibrary) > 0
    /\ last' = [Event("export") EXCEPT !.csv = CsvContent(cardLibrary)]
    /\ UNCHANGED <<scanVars, cardLibrary, calls>>

----------------------------------------------------------------------------
\* a response event of some outstanding request (lines 40, 49, 53)
Responds ==
    \/ \E r \in requests, m \in FetchMessages : FetchRejects(r, m)
    \/ \E r \in requests, s \in Statuses \cup {200} : FetchResolves(r, s)
    \/ \E r \in requests, b \in Bodies : TextResolves(r, b)
    \/ \E r \in requests, m \in JsonMessages : JsonFails(r, m)
    \/ \E r \in requests, n \in Names \cup {NoName}, t \in Times :
          JsonResolves(r, n, t)

\* the callbacks of the scan loop
ScanLoop ==
    \/ ToggleScanning
    \/ \E v \in BOOLEAN : TickReturns(v)
    \/ \E v \in BOOLEAN, m \in CaptureMessages : TickCaptureThrows(v, m)
    \/ \E v \in BOOLEAN : TickSubmits(v)
    \/ Responds
    \/ CooldownExpires
    \/ NotificationExpires
    \/ FlashExpires

\* the buttons of the library column
LibraryClicks ==
    \/ \E id \in Ids, d \in UIDeltas : ClickQuantity(id, d)
    \/ \E id \in Ids : ClickRemove(id)
    \/ ExportToCSV

Next == ScanLoop \/ LibraryClicks

Spec == Init /\ [][Next]_vars

\* The event loop runs every timeout that is due (lines 20, 61, 88) and,
\* while the interval of line 95 is armed, its ticks; the network answers
\* every request; a tick finds a video frame and captures it.
Fairness ==
    /\ WF_vars(CooldownExpires)
    /\ WF_vars(NotificationExpires)
    /\ WF_vars(FlashExpires)
    /\ WF_vars(Responds)
    /\ WF_vars(TickSubmits(TRUE))

\* The scan loop alone, under fairness: the library buttons leave every
\* variable of the scan loop unchanged.
SpecLive == Init /\ [][ScanLoop]_vars /\ Fairness

----------------------------------------------------------------------------
(* The library operations taken alone: the updater of lines 67-81,
   updateQuantity and removeCard applied to arbitrary arguments *)

RecordMatch(name, t) ==
    /\ calls[name] < MaxCalls
    /\ cardLibrary' = recordMatch(cardLibrary, name, t)
    /\ calls' = [calls EXCEPT ![name] = @ + 1]
    /\ last' = [Event("recordMatch") EXCEPT !.name = name,
                  !.id = AddedId(cardLibrary, name, t)]
    /\ UNCHANGED scanVars

NextRecord ==
    \E n \in Names, t \in Times : RecordMatch(n, t)

SpecRecord == Init /\ [][NextRecord]_vars

NextLibrary ==
    \/ \E n \in Names, t \in Times : RecordMatch(n, t)
    \/ \E id \in Ids, d \in Deltas : UpdateQuantity(id, d)
    \/ \E id \in Ids : RemoveCard(id)

SpecLibrary == Init /\ [][NextLibrary]_vars

----------------------------------------------------------------------------
(* Properties *)

Cards(lib) == {lib[i] : i \in DOMAIN lib}

Settled == {"request", "match"}

\* C1: at most one match request is outstanding (submitted and not settled)
\* in every reachable state.
AtMostOneOutstanding == Cardinality(requests) <= 1

\* C2: after any sequence of recordMatch calls from the empty library there
\* is exactly one entry per name that occurred, and its quantity is the
\* number of calls made with that name.
OneEntryPerCall ==
    /\ \A n \in Names :
          Cardinality({i \in DOMAIN cardLibrary : cardLibrary[i].name = n})
             = IF calls[n] > 0 THEN 1 ELSE 0
    /\ \A i \in DOMAIN cardLibrary :
          /\ cardLibrary[i].name \in Names
          /\ cardLibrary[i].quantity = calls[cardLibrary[i].name]

OneEntryPerCallWitness ==
    /\ calls["Bolt"] = 2
    /\ calls["Shock"] = 1
    /\ Len(cardLibrary) = 2

\* C3: in every reachable state the library holds at most one entry for each
\* card name.
UniqueNames ==
    \A i, j \in DOMAIN cardLibrary :
        cardLibrary[i].name = cardLibrary[j].name => i = j

UniqueNamesWitness ==
    /\ Len(cardLibrary) = 2
    /\ \E i \in DOMAIN cardLibrary : cardLibrary[i].quantity >= 2
    /\ last.op = "jsonResolves"
    /\ \E i \in DOMAIN cardLibrary : cardLibrary[i].name = last.name

\* What the claims say updateQuantity(id, delta) leaves of lib: the entries
\* with another id as they were, the entry with this id with quantity
\* quantity + delta when that is at least 1, and no other entry.
Adjusted(lib, id, delta) ==
    {e \in Cards(lib) : e.id # id} \cup
    {[e EXCEPT !.quantity = e.quantity + delta] :
        e \in {c \in Cards(lib) : c.id = id /\ c.quantity + delta >= 1}}

\* C4: updateQuantity(id, delta) sets the entry's quantity to
\* max(0, quantity + delta) and drops it when that is 0, so that every entry
\* of every reachable library has quantity >= 1.
QuantityClamped ==
    /\ [][last'.op = "updateQuantity" =>
            /\ Cards(cardLibrary') = Adjusted(cardLibrary, last'.id, last'.delta)
            /\ Len(cardLibrary') = Cardinality(Cards(cardLibrary'))]_vars
    /\ [](\A i \in DOMAIN cardLibrary : cardLibrary[i].quantity >= 1)

QuantityClampedWitness ==
    /\ last.op = "updateQuantity"
    /\ last.delta = -2
    /\ last.id \notin IdsIn(cardLibrary)
    /\ cardLibrary # <<>>

\* C5: updateQuantity(id, delta) right after removeCard(id) leaves the
\* library exactly as it was.
AdjustAfterRemoveIsNoOp ==
    [][(last'.op = "updateQuantity" /\ last'.afterRemove)
          => cardLibrary' = cardLibrary]_vars

AdjustAfterRemoveWitness ==
    /\ last.op = "updateQuantity"
    /\ last.afterRemove
    /\ last.removed
    /\ last.delta > 0
    /\ cardLibrary # <<>>

\* C6: when a cycle completes with a name, the stored error is cleared.
ErrorClearedOnMatch ==
    (last.op = "jsonResolves" /\ last.name # NoName) => error = NoError

Failures == {"fetchRejects", "serverError", "jsonFails"}

Contains(message, part) == \E i \in DOMAIN message : message[i] = part

NoNameChangesNothing ==
    [][(last'.op = "jsonResolves" /\ last'.name = NoName) =>
          /\ cardLibrary' = cardLibrary
          /\ notification' = notification
          /\ notificationTimers' = notificationTimers
          /\ error' = error]_vars

NoNameChangesNothingWitness ==
    /\ last.op = "jsonResolves"
    /\ last.name = NoName
    /\ error # NoError
    /\ cardLibrary # <<>>

QuantityOf(lib, name) ==
    IF \E e \in Cards(lib) : e.name = name
    THEN (CHOOSE e \in Cards(lib) : e.name = name).quantity
    ELSE 0

\* C9: a request that succeeds with a name after the user stopped scanning
\* still has its match recorded in the library.
MatchAppliedWhileIdle ==
    [][(last'.op = "jsonResolves" /\ last'.name # NoName /\ ~isScanning') =>
          QuantityOf(cardLibrary', last'.name)
             = QuantityOf(cardLibrary, last'.name) + 1]_vars

MatchAppliedWhileIdleWitness ==
    /\ last.op = "jsonResolves"
    /\ last.name # NoName
    /\ ~isScanning
    /\ QuantityOf(cardLibrary, last.name) >= 1

\* C10: while the cooldown timeout armed by a settled request is pending,
\* the gate is set (so no tick submits a request).
GateHeldThroughCooldown ==
    (\E i \in DOMAIN cooldownTimers : cooldownTimers[i] \in Settled)
       => isRequestInFlight

Settles == Failures \cup {"jsonResolves"}

\* C11: a failed cycle leaves the scanning flag alone, and after any settled
\* cycle the gate is eventually cleared and, unless scanning is stopped (or
\* the model's cycle bound is reached), another request is submitted.
ScanningContinues ==
    /\ [][last'.op \in Failures \cup {"captureThrows"}
             => isScanning' = isScanning]_vars
    /\ (last.op \in Settles) ~> ~isRequestInFlight
    /\ (last.op \in Settles) ~>
          (last.op = "submit" \/ ~isScanning \/ cycles = MaxCycles)

ScanningContinuesWitness ==
    /\ last.op = "submit"
    /\ error # NoError
    /\ isScanning
    /\ cycles = 2
    /\ Cardinality(requests) = 1

NamesIn(lib) == {lib[i].name : i \in DOMAIN lib}

\* C12: for a name the library does not hold, recordMatch(name) followed by
\* updateQuantity(id of the new entry, -1) gives back the library as it was.
AddThenDecrementRestores ==
    \A n \in Names \ NamesIn(cardLibrary), t \in Times :
        LET added == recordMatch(cardLibrary, n, t)
        IN updateQuantity(added, added[Len(added)].id, -1) = cardLibrary

AddThenDecrementWitness ==
    /\ last.op = "updateQuantity"
    /\ last.afterAdd
    /\ last.delta = -1
    /\ last.id[1] \notin NamesIn(cardLibrary)
    /\ cardLibrary # <<>>

\* the lines of a text: its pieces split at the line breaks
RECURSIVE Lines(_)
Lines(text) ==
    IF \A i \in DOMAIN text : text[i] # "\n" THEN <<text>>
    ELSE LET k == CHOOSE i \in DOMAIN text :
                     text[i] = "\n" /\ \A j \in 1..(i - 1) : text[j] # "\n"
         IN <<SubSeq(text, 1, k - 1)>> \o Lines(SubSeq(text, k + 1, Len(text)))

\* C13: export leaves the library as it is and emits the header row and then
\* one row per entry, in library order: the name and the id in double
\* quotes, the quantity bare.
ExportListsLibrary ==
    [][last'.op = "export" =>
          /\ cardLibrary' = cardLibrary
          /\ LET rows == Lines(last'.csv)
             IN /\ Len(rows) = Len(cardLibrary) + 1
                /\ rows[1] = <<"Card Name", ",", "Card ID", ",", "Quantity">>
                /\ \A i \in DOMAIN cardLibrary :
                      rows[i + 1] =
                         <<"\"", cardLibrary[i].name, "\"", ",", "\"">>
                         \o IdText(cardLibrary[i].id)
                         \o <<"\"", ",", ToString(cardLibrary[i].quantity)>>]_vars

ExportListsLibraryWitness ==
    /\ last.op = "export"
    /\ Len(cardLibrary) = 2
    /\ cardLibrary[1].quantity = 2
    /\ cardLibrary[2].quantity = 1

Numbers(reqs) == {r.n : r \in reqs}

\* C14: a request is started only by a tick, and only while scanning: while
\* the loop is stopped no request is submitted.
SubmitsOnlyWhileScanning ==
    [][Numbers(requests') \ Numbers(requests) # {}
          => (isScanning /\ last'.op = "submit")]_vars

SubmitsOnlyWhileScanningWitness ==
    /\ ~isScanning
    /\ ~isRequestInFlight
    /\ last.op = "cooldownExpires"
    /\ cycles \in 1..(MaxCycles - 1)

\* C15: match results are applied in the order their requests were
\* submitted: when a request's match is applied to the library, no request
\* submitted before it is still outstanding.
MutationsInStartOrder ==
    (last.op = "jsonResolves" /\ last.name # NoName)
       => \A r \in requests : r.n > last.request

\* C16: while a submitted request has not settled, the gate is set.
GateSetWhileOutstanding == requests # {} => isRequestInFlight

Thrown == Failures \cup {"captureThrows"}

\* C17 as stated: every failure kind, the tick that finds no video frame
\* included, stores an error message and changes neither the library nor
\* the scanning flag.
EveryFailureStored ==
    [][(last'.op \in Thrown \/ (last'.op = "tickReturns" /\ ~last'.video)) =>
          /\ error' # NoError
          /\ cardLibrary' = cardLibrary
          /\ isScanning' = isScanning]_vars

\* C17 amended: every failure thrown inside the try block (by the capture,
\* the fetch, the status check or the decoding) stores an error message and
\* changes neither the library nor the scanning flag; a tick that finds no
\* video frame returns silently, storing no error and changing nothing.
ThrownFailuresStored ==
    [][/\ last'.op \in Thrown =>
             /\ error' # NoError
             /\ cardLibrary' = cardLibrary
             /\ isScanning' = isScanning
       /\ (last'.op = "tickReturns" /\ ~last'.video) =>
             UNCHANGED <<scanVars, cardLibrary>>]_vars

ThrownFailuresStoredWitness ==
    /\ last.op = "tickReturns"
    /\ ~last.video
    /\ ~isRequestInFlight
    /\ error = NoError
    /\ cardLibrary # <<>>

Ticks == {"tickReturns", "captureThrows", "submit"}

\* C18: a tick that fires while the gate is set changes nothing: no request,
\* no cooldown timeout, and the gate, the library, the error and the
\* notification stay as they are.
GatedTickIsNoOp ==
    [][(last'.op \in Ticks /\ isRequestInFlight)
          => UNCHANGED <<scanVars, cardLibrary>>]_vars

GatedTickIsNoOpWitness ==
    /\ last.op = "tickReturns"
    /\ last.video
    /\ isRequestInFlight
    /\ cooldownTimers # <<>>
    /\ requests = {}

\* C19: no two entries share an id; across every step an entry keeps its id
\* and its name; updateQuantity and removeCard change at most one entry.
IdsUniqueAndStable ==
    /\ [](\A i, j \in DOMAIN cardLibrary :
             cardLibrary[i].id = cardLibrary[j].id => i = j)
    /\ [][\A e \in Cards(cardLibrary), f \in Cards(cardLibrary') :
             (e.id = f.id) <=> (e.name = f.name)]_vars
    /\ [][last'.op \in {"updateQuantity", "removeCard"} =>
             /\ Cardinality(Cards(cardLibrary) \ Cards(cardLibrary')) <= 1
             /\ Cardinality(Cards(cardLibrary') \ Cards(cardLibrary)) <= 1]_vars

IdsUniqueAndStableWitness ==
    /\ Len(cardLibrary) = 2
    /\ cardLibrary[1].id[2] = cardLibrary[2].id[2]
    /\ cardLibrary[1].quantity = 2
    /\ last.op = "updateQuantity"
    /\ last.id = cardLibrary[1].id

\* C20: a match is applied to the library as it stands when the request
\* completes: the other entries stay, an entry of that name gains 1 (so one
\* the user incremented during the flight is 2 above its old quantity), and
\* a name the library does not hold (also one the user removed during the
\* flight) gets a new entry of quantity 1.
MatchKeepsUserEdits ==
    [][(last'.op = "jsonResolves" /\ last'.name # NoName) =>
          LET n == last'.name
          IN /\ {e \in Cards(cardLibrary') : e.name # n}
                   = {e \in Cards(cardLibrary) : e.name # n}
             /\ Len(cardLibrary') = Cardinality(NamesIn(cardLibrary) \cup {n})
             /\ QuantityOf(cardLibrary', n) = QuantityOf(cardLibrary, n) + 1
             /\ (last.op = "removeCard" /\ last.id[1] = n)
                   => QuantityOf(cardLibrary', n) = 1
             /\ \A e \in Cards(cardLibrary) :
                   e.name = n =>
                      [e EXCEPT !.quantity = @ + 1] \in Cards(cardLibrary')]_vars

MatchKeepsUserEditsWitness ==
    /\ last.op = "jsonResolves"
    /\ last.name # NoName
    /\ last.delta = 1
    /\ QuantityOf(cardLibrary, last.name) = 3
    /\ Len(cardLibrary) = 2

====
